---- MODULE Spec2Model ----
(***************************************************************************)
(* MediSync (src/app.py): a Flask application over a PostgreSQL schema.    *)
(* The model covers the six routes (/, /auth, /logout, /dashboard,         *)
(* /purchases, /add-purchase), the login_required gate, log_activity, the  *)
(* cookie session of each browser and the tables the routes read or write. *)
(*                                                                         *)
(* Text values that the code parses (form fields) are tuples of one-       *)
(* character strings, so that int() and the integer input of the database  *)
(* are computed, not assumed. A nullable integer column is <<>> (NULL) or  *)
(* <<n>>.                                                                  *)
(***************************************************************************)
EXTENDS Integers, Sequences, FiniteSets, TLC

\* ------------------------------------------------------------------ bounds
MaxActivity == 3        \* rows of user_activity the sequential runs may reach
MaxLeaked == 1          \* connections left open the sequential runs may reach
MaxQty == 1             \* largest quantity a well-formed form carries
MaxStock == 2           \* largest Product.stock_quantity drawn

Sessions == {"s1", "s2"}        \* browser sessions (cookies)
Reqs == {"A", "B"}              \* the two concurrent /add-purchase requests

\* ------------------------------------------------------- text and parsing
DigitChars == <<"0", "1", "2", "3", "4", "5", "6", "7", "8", "9">>

IsDigit(c) == \E i \in 1..10 : DigitChars[i] = c

DigitValue(c) == (CHOOSE i \in 1..10 : DigitChars[i] = c) - 1

RECURSIVE StripLeft(_)
StripLeft(t) == IF t # <<>> /\ Head(t) = " " THEN StripLeft(Tail(t)) ELSE t

RECURSIVE StripRight(_)
StripRight(t) ==
    IF t # <<>> /\ t[Len(t)] = " " THEN StripRight(SubSeq(t, 1, Len(t) - 1)) ELSE t

RECURSIVE DecimalValue(_)
DecimalValue(t) ==
    IF t = <<>> THEN 0
    ELSE DecimalValue(SubSeq(t, 1, Len(t) - 1)) * 10 + DigitValue(t[Len(t)])

\* Python int(str): surrounding whitespace is stripped, one optional sign,
\* then at least one digit and nothing else; anything else is a ValueError.
PyInt(raw) ==
    LET t == StripRight(StripLeft(raw))
        signed == t # <<>> /\ Head(t) \in {"+", "-"}
        body == IF signed THEN Tail(t) ELSE t
        ok == body # <<>> /\ \A i \in 1..Len(body) : IsDigit(body[i])
    IN  IF ok
        THEN [ok |-> TRUE,
              val |-> IF signed /\ Head(t) = "-" THEN 0 - DecimalValue(body)
                      ELSE DecimalValue(body)]
        ELSE [ok |-> FALSE, val |-> 0]

\* The INTEGER input of the database for a quoted literal (the form's
\* product_id and supplier_id reach the INSERT as text): surrounding
\* whitespace, one optional sign, digits; anything else is a database error.
PgInt4In(raw) ==
    LET t == StripRight(StripLeft(raw))
        signed == t # <<>> /\ Head(t) \in {"+", "-"}
        body == IF signed THEN Tail(t) ELSE t
        ok == body # <<>> /\ \A i \in 1..Len(body) : IsDigit(body[i])
    IN  IF ok
        THEN [ok |-> TRUE,
              val |-> IF signed /\ Head(t) = "-" THEN 0 - DecimalValue(body)
                      ELSE DecimalValue(body)]
        ELSE [ok |-> FALSE, val |-> 0]

\* The DATE input of the database: the literals it accepts, as tokens.
DateLiterals == {<<"2025-01-01">>, <<"2026-06-30">>}

PgDateIn(raw) == raw \in DateLiterals

\* ------------------------------------------------------------ the session
EmptySession == [k \in {} |-> TRUE]

\* Faulty variant: only the identity is dropped, the logged_in flag stays.
SessionClearKeepsFlag(sess) == [k \in DOMAIN sess \ {"username", "user_id"} |-> sess[k]]

\* session.clear()
SessionClear(sess) == EmptySession

\* session.update(d)
SessionUpdate(sess, d) ==
    [k \in DOMAIN sess \cup DOMAIN d |-> IF k \in DOMAIN d THEN d[k] ELSE sess[k]]

\* session.get("logged_in") is truthy
LoggedInFlag(sess) == "logged_in" \in DOMAIN sess /\ sess["logged_in"] = TRUE

\* session.get("username") is truthy
UsernameSet(sess) == "username" \in DOMAIN sess /\ sess["username"] # ""

\* Faulty variant: only an explicit logged_in = False is turned away.
login_required_unless_false(sess) ==
    ~("logged_in" \in DOMAIN sess /\ sess["logged_in"] = FALSE)

\* login_required: TRUE when the wrapped handler is invoked, FALSE when the
\* decorator answers with the redirect to the login page.
login_required(sess) == LoggedInFlag(sess)

\* ------------------------------------------------------------- passwords
\* werkzeug: a stored hash is a salt and the digest of salt and password;
\* check_password_hash recomputes the digest with the stored salt.
Digest(salt, password) == <<salt, password>>

generate_password_hash(salt, password) ==
    [salt |-> salt, digest |-> Digest(salt, password)]

check_password_hash(pwhash, password) == pwhash.digest = Digest(pwhash.salt, password)

\* ---------------------------------------------------------------- tables
\* users: username is UNIQUE NOT NULL; the password column holds a hash.
UsersTable ==
    { [id |-> 1, username |-> "alice",
       password |-> generate_password_hash("salt1", "pw1"),
       full_name |-> "Alice A", role |-> "admin"],
      [id |-> 2, username |-> "bob",
       password |-> generate_password_hash("salt2", "pw2"),
       full_name |-> "Bob B", role |-> "staff"] }

ProductIds == {1, 2}

\* Product rows: product_type is NOT NULL and CHECKed to be one of two
\* values; stock_quantity is nullable with DEFAULT 0; status DEFAULT 'active'.
ProductRows ==
    [id : ProductIds,
     product_type : {"medicine", "supply"},
     stock_quantity : {<<>>} \cup {<<n>> : n \in 0..MaxStock},
     status : {"active", "inactive"}]

\* Every content of the Product table over these ids: each id is absent or
\* is the primary key of one row.
RowChoices(i) == {{}} \cup {{r} : r \in {x \in ProductRows : x.id = i}}

ProductTables == {a \cup b : a \in RowChoices(1), b \in RowChoices(2)}

\* The table the request sequences run against (one medicine, one supply).
StockedProducts ==
    { [id |-> 1, product_type |-> "medicine", stock_quantity |-> <<2>>,
       status |-> "active"],
      [id |-> 2, product_type |-> "supply", stock_quantity |-> <<1>>,
       status |-> "active"] }

SupplierTable == { [id |-> 1, supplier_name |-> "Acme"] }

\* Faulty variant: the product and supplier parameters of the INSERT swapped.
PurchaseRowSwapped(id, product_id, supplier_id, qty, expiration) ==
    [id |-> id, product_id |-> supplier_id, supplier_id |-> product_id,
     batch_number |-> <<>>, purchase_quantity |-> qty,
     remaining_quantity |-> qty, expiration_date |-> expiration,
     status |-> "in stock"]

\* Faulty variant: remaining_quantity clamped at 0 while purchase_quantity
\* keeps the submitted value.
PurchaseRowClamped(id, product_id, supplier_id, qty, expiration) ==
    [id |-> id, product_id |-> product_id, supplier_id |-> supplier_id,
     batch_number |-> <<>>, purchase_quantity |-> qty,
     remaining_quantity |-> IF qty < 0 THEN 0 ELSE qty,
     expiration_date |-> expiration, status |-> "in stock"]

\* A Purchase row as the INSERT of add_purchase leaves it: batch_number is
\* NULL, status takes its DEFAULT, remaining_quantity is the quantity.
PurchaseRow(id, product_id, supplier_id, qty, expiration) ==
    [id |-> id, product_id |-> product_id, supplier_id |-> supplier_id,
     batch_number |-> <<>>, purchase_quantity |-> qty,
     remaining_quantity |-> qty, expiration_date |-> expiration,
     status |-> "in stock"]

VARIABLES
    users,              \* table users
    Product,            \* table Product
    Supplier,           \* table Supplier
    Purchase,           \* table Purchase: the committed rows
    purchase_id_seq,    \* next value of the SERIAL sequence of Purchase.id
    user_activity,      \* table user_activity, in id order
    session,            \* session[s]: the cookie session of browser s
    open_connections,   \* database connections opened and not closed
    response,           \* the answer to the latest request served in one step
    req                 \* req[r]: a /add-purchase request served step by step

vars == <<users, Product, Supplier, Purchase, purchase_id_seq, user_activity,
          session, open_connections, response, req>>

Response(route, s, status, body) ==
    [route |-> route, session |-> s, status |-> status, body |-> body]

IdleReq ==
    [pc |-> "idle", session |-> EmptySession, form |-> EmptySession,
     parsed |-> <<>>, pending |-> {}, status |-> "none"]

\* The state after init_db on an empty database whose users, Product and
\* Supplier tables were then filled in: nothing purchased, nothing logged.
InitTables ==
    /\ users = UsersTable
    /\ Supplier = SupplierTable
    /\ Purchase = {}
    /\ purchase_id_seq = 1
    /\ user_activity = <<>>
    /\ open_connections = 0

Init ==
    /\ InitTables
    /\ Product = StockedProducts
    /\ session = [s \in Sessions |-> EmptySession]
    /\ response = Response("none", "s1", "none", <<>>)
    /\ req = [r \in Reqs |-> IdleReq]

\* Faulty variant: the INSERT is never committed, so no row is stored.
log_activity_uncommitted(log, username, activity) == log

\* log_activity: one INSERT into user_activity on a connection of its own,
\* committed and closed.
log_activity(log, username, activity) ==
    Append(log, [username |-> username, activity |-> activity])

\* ------------------------------------------------------------------ GET /
login(s) ==
    /\ session' = [session EXCEPT ![s] = SessionClear(session[s])]
    /\ response' = Response("login", s, "login_page", <<>>)
    /\ UNCHANGED <<users, Product, Supplier, Purchase, purchase_id_seq,
                   user_activity, open_connections, req>>

\* ------------------------------------------------------------- POST /auth
Restrict(f, D) == [k \in D |-> f[k]]

\* The forms a client may post: the right and a wrong password of a user,
\* an unknown username, and forms with a field missing.
AuthForms ==
    {[username |-> "alice", password |-> "pw1"],
     [username |-> "alice", password |-> "pw2"],
     [username |-> "bob", password |-> "pw2"],
     [username |-> "bob", password |-> "pw1"],
     [username |-> "mallory", password |-> "pw1"]}
    \cup {Restrict([username |-> "alice", password |-> "pw1"], D) :
             D \in {{"username"}, {"password"}, {}}}

\* SELECT ... FROM users WHERE username=%s; fetchone()
SelectUser(table, username) == {u \in table : u.username = username}

AuthSucceeds(table, form) ==
    /\ {"username", "password"} \subseteq DOMAIN form
    /\ \E u \in SelectUser(table, form["username"]) :
           check_password_hash(u.password, form["password"])

auth(s, form) ==
    /\ UNCHANGED <<users, Product, Supplier, Purchase, purchase_id_seq,
                   open_connections, req>>
    /\ IF ~({"username", "password"} \subseteq DOMAIN form)
       THEN \* request.form[...] raises BadRequestKeyError: 400
            /\ response' = Response("auth", s, "bad_request", <<>>)
            /\ UNCHANGED <<session, user_activity>>
       ELSE IF AuthSucceeds(users, form)
       THEN LET user == CHOOSE u \in SelectUser(users, form["username"]) : TRUE
            IN  /\ Len(user_activity) < MaxActivity
                /\ session' = [session EXCEPT ![s] =
                       SessionUpdate(session[s],
                           [logged_in |-> TRUE, user_id |-> user.id,
                            username |-> user.username, name |-> user.full_name,
                            role |-> user.role])]
                /\ user_activity' =
                       log_activity(user_activity, form["username"], "Logged in")
                /\ response' = Response("auth", s, "redirect_dashboard", <<>>)
       ELSE /\ response' = Response("auth", s, "login_error", <<>>)
            /\ UNCHANGED <<session, user_activity>>

\* ------------------------------------------------------------ GET /logout
logout(s) ==
    /\ IF UsernameSet(session[s])
       THEN /\ Len(user_activity) < MaxActivity
            /\ user_activity' =
                   log_activity(user_activity, session[s]["username"], "Logged out")
       ELSE UNCHANGED user_activity
    /\ session' = [session EXCEPT ![s] = SessionClear(session[s])]
    /\ response' = Response("logout", s, "redirect_login", <<>>)
    /\ UNCHANGED <<users, Product, Supplier, Purchase, purchase_id_seq,
                   open_connections, req>>

\* --------------------------------------------------------- GET /dashboard
RECURSIVE SumStock(_)
\* SUM(stock_quantity) over rows whose stock_quantity is not NULL
SumStock(rows) ==
    IF rows = {} THEN 0
    ELSE LET r == CHOOSE x \in rows : TRUE
         IN  r.stock_quantity[1] + SumStock(rows \ {r})

\* Faulty variant: the WHERE status='active' clause left out.
AllProducts(table) == table

ActiveProducts(table) == {p \in table : p.status = "active"}

\* SELECT SUM(stock_quantity) FROM Product WHERE status='active'; the
\* aggregate is NULL when no row contributes a value, and "or 0" makes it 0.
TotalStocks(table) ==
    LET valued == {p \in ActiveProducts(table) : p.stock_quantity # <<>>}
        sum == IF valued = {} THEN <<>> ELSE <<SumStock(valued)>>
    IN  IF sum = <<>> \/ sum[1] = 0 THEN 0 ELSE sum[1]

\* SUM(CASE WHEN product_type=t THEN 1 ELSE 0 END) FROM Product WHERE
\* status='active', then "or 0"
CountOfType(table, t) ==
    LET rows == ActiveProducts(table)
        sum == IF rows = {} THEN <<>>
               ELSE <<Cardinality({p \in rows : p.product_type = t})>>
    IN  IF sum = <<>> \/ sum[1] = 0 THEN 0 ELSE sum[1]

dashboard(s) ==
    /\ IF ~login_required(session[s])
       THEN response' = Response("dashboard", s, "redirect_login", <<>>)
       ELSE response' = Response("dashboard", s, "dashboard_page",
                            <<TotalStocks(Product), CountOfType(Product, "medicine"),
                              CountOfType(Product, "supply")>>)
    /\ UNCHANGED <<users, Product, Supplier, Purchase, purchase_id_seq,
                   user_activity, session, open_connections, req>>

\* --------------------------------------------------------- GET /purchases
RECURSIVE NewestFirst(_)
\* The ids of the listing, ORDER BY purchase_date DESC: purchase_date is the
\* time of the insert, so the order is that of the ids, newest first.
NewestFirst(rows) ==
    IF rows = {} THEN <<>>
    ELSE LET r == CHOOSE x \in rows : \A y \in rows : y.id <= x.id
         IN  <<r.id>> \o NewestFirst(rows \ {r})

purchases(s) ==
    /\ IF ~login_required(session[s])
       THEN response' = Response("purchases", s, "redirect_login", <<>>)
       ELSE response' = Response("purchases", s, "purchases_page",
                                 NewestFirst(Purchase))
    /\ UNCHANGED <<users, Product, Supplier, Purchase, purchase_id_seq,
                   user_activity, session, open_connections, req>>

\* ----------------------------------------------------- POST /add-purchase
\* Python str(int), as a browser form carries a number.
RECURSIVE FmtNat(_)
FmtNat(n) == IF n < 10 THEN <<DigitChars[n + 1]>>
             ELSE FmtNat(n \div 10) \o <<DigitChars[(n % 10) + 1]>>

Fmt(n) == IF n < 0 THEN <<"-">> \o FmtNat(0 - n) ELSE FmtNat(n)

Quantities == 0..MaxQty

PurchaseFormFields ==
    {"product_id", "supplier_id", "purchase_quantity", "expiration_date"}

\* The form a browser posts for product P, supplier S, quantity Q, date E.
PurchaseForm(P, S, Q, E) ==
    [product_id |-> Fmt(P), supplier_id |-> Fmt(S),
     purchase_quantity |-> Fmt(Q), expiration_date |-> E]

BaseForm == PurchaseForm(1, 1, 1, <<"2025-01-01">>)

\* Well-formed forms (products 1 and 2 and supplier 1 exist).
WellFormedForms ==
    {PurchaseForm(1, 1, Q, <<"2025-01-01">>) : Q \in Quantities}
    \cup {PurchaseForm(2, 1, 1, <<"2026-06-30">>)}

\* Quantities int() accepts that are not what str() writes, or not positive.
OddQuantityForms ==
    {[BaseForm EXCEPT !["purchase_quantity"] = v] :
        v \in {<<"-", "1">>, <<" ", "1", " ">>}}

\* Forms that fail: fields missing, a quantity int() rejects, literals the
\* database rejects, ids that exist in no table (9).
FailingForms ==
    {Restrict(BaseForm, PurchaseFormFields \ {k}) : k \in PurchaseFormFields}
    \cup {[BaseForm EXCEPT !["product_id"] = v] : v \in {Fmt(9), <<"x">>}}
    \cup {[BaseForm EXCEPT !["supplier_id"] = Fmt(9)]}
    \cup {[BaseForm EXCEPT !["purchase_quantity"] = <<"x">>]}
    \cup {[BaseForm EXCEPT !["expiration_date"] = <<>>]}
    \cup {Restrict([BaseForm EXCEPT !["purchase_quantity"] = <<"x">>],
                   PurchaseFormFields \ {"expiration_date"})}

PurchaseForms == WellFormedForms \cup OddQuantityForms \cup FailingForms

\* Faulty variant: a missing field is an unhandled exception like any other.
ReadFormUnhandled(form) ==
    IF PurchaseFormFields \ DOMAIN form # {} THEN [status |-> "server_error"]
    ELSE IF ~PyInt(form["purchase_quantity"]).ok THEN [status |-> "server_error"]
    ELSE [status |-> "ok",
          product_id |-> form["product_id"],
          supplier_id |-> form["supplier_id"],
          qty |-> PyInt(form["purchase_quantity"]).val,
          expiration |-> form["expiration_date"]]

\* Lines 263-266: the four form reads in order. A missing field raises
\* BadRequestKeyError (answered 400); int() of a malformed quantity raises
\* ValueError (unhandled: 500).
ReadForm(form) ==
    IF "product_id" \notin DOMAIN form THEN [status |-> "bad_request"]
    ELSE IF "supplier_id" \notin DOMAIN form THEN [status |-> "bad_request"]
    ELSE IF "purchase_quantity" \notin DOMAIN form THEN [status |-> "bad_request"]
    ELSE IF ~PyInt(form["purchase_quantity"]).ok THEN [status |-> "server_error"]
    ELSE IF "expiration_date" \notin DOMAIN form THEN [status |-> "bad_request"]
    ELSE [status |-> "ok",
          product_id |-> form["product_id"],
          supplier_id |-> form["supplier_id"],
          qty |-> PyInt(form["purchase_quantity"]).val,
          expiration |-> form["expiration_date"]]

\* Faulty variant: the id computed from the committed rows (count + 1).
NextValFromTable(seq, committed) == Cardinality(committed) + 1

\* nextval of the SERIAL sequence: never rolled back, never reused.
NextVal(seq, committed) == seq

\* Lines 268-272: the INSERT inside the connection's transaction. A literal
\* the column type rejects fails before a row is formed; otherwise the row
\* takes the next id and the foreign keys are checked.
InsertPurchase(f, seq, committed, products, suppliers) ==
    LET pid == PgInt4In(f.product_id)
        sid == PgInt4In(f.supplier_id)
    IN  IF ~pid.ok \/ ~sid.ok \/ ~PgDateIn(f.expiration)
        THEN [ok |-> FALSE, seq |-> seq, rows |-> {}]
        ELSE IF \/ pid.val \notin {p.id : p \in products}
                \/ sid.val \notin {x.id : x \in suppliers}
        THEN [ok |-> FALSE, seq |-> seq + 1, rows |-> {}]
        ELSE [ok |-> TRUE, seq |-> seq + 1,
              rows |-> {PurchaseRow(NextVal(seq, committed), pid.val, sid.val,
                                    f.qty, f.expiration)}]

\* conn.commit(): the transaction's rows join the table.
Commit(committed, pending) == committed \cup pending

add_purchase(s, form) ==
    /\ UNCHANGED <<users, Product, Supplier, session, req>>
    /\ IF ~login_required(session[s])
       THEN /\ response' = Response("add_purchase", s, "redirect_login", <<>>)
            /\ UNCHANGED <<Purchase, purchase_id_seq, user_activity, open_connections>>
       ELSE LET f == ReadForm(form)
            IN  IF f.status # "ok"
                THEN \* the exception leaves the function: conn.close() is not reached
                     /\ open_connections < MaxLeaked
                     /\ open_connections' = open_connections + 1
                     /\ response' = Response("add_purchase", s, f.status, <<>>)
                     /\ UNCHANGED <<Purchase, purchase_id_seq, user_activity>>
                ELSE LET ins == InsertPurchase(f, purchase_id_seq, Purchase,
                                               Product, Supplier)
                     IN  IF ~ins.ok
                         THEN \* the database error leaves the function likewise
                              /\ open_connections < MaxLeaked
                              /\ open_connections' = open_connections + 1
                              /\ purchase_id_seq' = ins.seq
                              /\ response' =
                                     Response("add_purchase", s, "server_error", <<>>)
                              /\ UNCHANGED <<Purchase, user_activity>>
                         ELSE /\ Len(user_activity) < MaxActivity
                              /\ Purchase' = Commit(Purchase, ins.rows)
                              /\ purchase_id_seq' = ins.seq
                              /\ UNCHANGED open_connections
                              /\ IF "username" \in DOMAIN session[s]
                                 THEN /\ user_activity' =
                                            log_activity(user_activity,
                                                session[s]["username"], "Added stock-in")
                                      /\ response' = Response("add_purchase", s,
                                                              "json_success", <<>>)
                                 ELSE \* session["username"] raises KeyError
                                      /\ response' = Response("add_purchase", s,
                                                              "server_error", <<>>)
                                      /\ UNCHANGED user_activity

\* ------------------------------------------------- one request per step
\* The request sequences are those of one browser; the second session is
\* used by the concurrent requests below.
Browsers == {"s1"}

Next ==
    \/ \E s \in Browsers : login(s)
    \/ \E s \in Browsers, form \in AuthForms : auth(s, form)
    \/ \E s \in Browsers : logout(s)
    \/ \E s \in Browsers : dashboard(s)
    \/ \E s \in Browsers : purchases(s)
    \/ \E s \in Browsers, form \in PurchaseForms : add_purchase(s, form)

Spec == Init /\ [][Next]_vars

\* ------------------------------------- the dashboard on any Product table
InitDash ==
    /\ InitTables
    /\ Product \in ProductTables
    /\ session = [s \in Sessions |-> EmptySession]
    /\ response = Response("none", "s1", "none", <<>>)
    /\ req = [r \in Reqs |-> IdleReq]

DashAuthForms ==
    {[username |-> "alice", password |-> "pw1"],
     [username |-> "alice", password |-> "pw2"]}

NextDash ==
    \/ \E s \in Browsers, form \in DashAuthForms : auth(s, form)
    \/ \E s \in Browsers : dashboard(s)
    \/ \E s \in Browsers : logout(s)

SpecDash == InitDash /\ [][NextDash]_vars

\* --------------------------- two /add-purchase requests served in threads
\* waitress serves each request in a thread of its own; a request's steps
\* are the statements of add_purchase, and the steps of two requests
\* interleave freely. Each request reads its own copy of the cookie session.
ConcForms ==
    WellFormedForms
    \cup {Restrict(BaseForm, PurchaseFormFields \ {"product_id"}),
          [BaseForm EXCEPT !["product_id"] = Fmt(9)],
          [BaseForm EXCEPT !["purchase_quantity"] = <<"x">>]}

UserSession(u) ==
    SessionUpdate(EmptySession,
        [logged_in |-> TRUE, user_id |-> u.id, username |-> u.username,
         name |-> u.full_name, role |-> u.role])

UserNamed(name) == CHOOSE u \in UsersTable : u.username = name

\* alice and bob have logged in, each in a browser of their own.
InitConc ==
    /\ users = UsersTable
    /\ Supplier = SupplierTable
    /\ Product = StockedProducts
    /\ Purchase = {}
    /\ purchase_id_seq = 1
    /\ user_activity =
           log_activity(log_activity(<<>>, "alice", "Logged in"), "bob", "Logged in")
    /\ open_connections = 0
    /\ session = [s \in Sessions |->
                     IF s = "s1" THEN UserSession(UserNamed("alice"))
                     ELSE UserSession(UserNamed("bob"))]
    /\ response = Response("none", "s1", "none", <<>>)
    /\ req = [r \in Reqs |-> IdleReq]

ReqUnchanged ==
    UNCHANGED <<users, Product, Supplier, session, response>>

\* The request arrives; login_required looks at its session.
Start(r) ==
    /\ req[r].pc = "idle"
    /\ \E s \in Sessions, form \in ConcForms :
           req' = [req EXCEPT ![r] =
                      [pc |-> IF login_required(session[s]) THEN "connect" ELSE "done",
                       session |-> session[s], form |-> form, parsed |-> <<>>,
                       pending |-> {},
                       status |-> IF login_required(session[s]) THEN "none"
                                  ELSE "redirect_login"]]
    /\ ReqUnchanged
    /\ UNCHANGED <<Purchase, purchase_id_seq, user_activity, open_connections>>

\* line 260: psycopg2.connect
Connect(r) ==
    /\ req[r].pc = "connect"
    /\ open_connections' = open_connections + 1
    /\ req' = [req EXCEPT ![r].pc = "read"]
    /\ ReqUnchanged
    /\ UNCHANGED <<Purchase, purchase_id_seq, user_activity>>

\* lines 263-266: the form reads
ReadFields(r) ==
    /\ req[r].pc = "read"
    /\ LET f == ReadForm(req[r].form)
       IN  req' = IF f.status = "ok"
                  THEN [req EXCEPT ![r].pc = "insert", ![r].parsed = <<f>>]
                  ELSE [req EXCEPT ![r].pc = "done", ![r].status = f.status]
    /\ ReqUnchanged
    /\ UNCHANGED <<Purchase, purchase_id_seq, user_activity, open_connections>>

\* lines 268-272: the INSERT, in the connection's open transaction
Insert(r) ==
    /\ req[r].pc = "insert"
    /\ LET ins == InsertPurchase(req[r].parsed[1], purchase_id_seq, Purchase,
                                 Product, Supplier)
       IN  /\ purchase_id_seq' = ins.seq
           /\ req' = IF ins.ok
                     THEN [req EXCEPT ![r].pc = "commit", ![r].pending = ins.rows]
                     ELSE [req EXCEPT ![r].pc = "done", ![r].status = "server_error"]
    /\ ReqUnchanged
    /\ UNCHANGED <<Purchase, user_activity, open_connections>>

\* line 274: conn.commit()
CommitStep(r) ==
    /\ req[r].pc = "commit"
    /\ Purchase' = Commit(Purchase, req[r].pending)
    /\ req' = [req EXCEPT ![r].pc = "close", ![r].pending = {}]
    /\ ReqUnchanged
    /\ UNCHANGED <<purchase_id_seq, user_activity, open_connections>>

\* line 275: conn.close()
Close(r) ==
    /\ req[r].pc = "close"
    /\ open_connections' = open_connections - 1
    /\ req' = [req EXCEPT ![r].pc = "log"]
    /\ ReqUnchanged
    /\ UNCHANGED <<Purchase, purchase_id_seq, user_activity>>

\* lines 277-278: log_activity, then the JSON answer
LogStep(r) ==
    /\ req[r].pc = "log"
    /\ IF "username" \in DOMAIN req[r].session
       THEN /\ user_activity' = log_activity(user_activity,
                                    req[r].session["username"], "Added stock-in")
            /\ req' = [req EXCEPT ![r].pc = "done", ![r].status = "json_success"]
       ELSE /\ UNCHANGED user_activity
            /\ req' = [req EXCEPT ![r].pc = "done", ![r].status = "server_error"]
    /\ ReqUnchanged
    /\ UNCHANGED <<Purchase, purchase_id_seq, open_connections>>

NextConc ==
    \E r \in Reqs :
        \/ Start(r)
        \/ Connect(r)
        \/ ReadFields(r)
        \/ Insert(r)
        \/ CommitStep(r)
        \/ Close(r)
        \/ LogStep(r)

SpecConc == InitConc /\ [][NextConc]_vars

\* ================================================================= claims
ProtectedRoutes == {"dashboard", "purchases", "add_purchase"}

StoredUnchanged ==
    UNCHANGED <<Purchase, purchase_id_seq, user_activity, session>>

\* C1: every POST /auth carrying both fields, from any prior session state:
\* if the username exists and the password verifies, the session becomes
\* logged in as that user and the answer is the redirect to /dashboard; for
\* every other pair the answer is the login page with an error and the
\* session is empty afterwards.
C1_AuthEstablishesOrEmpties ==
    [][\A s \in Sessions, form \in AuthForms :
          (DOMAIN form = {"username", "password"} /\ auth(s, form)) =>
              IF AuthSucceeds(users, form)
              THEN /\ response'.status = "redirect_dashboard"
                   /\ LoggedInFlag(session'[s])
                   /\ session'[s]["username"] = form["username"]
              ELSE /\ response'.status = "login_error"
                   /\ session'[s] = EmptySession]_vars

\* C2: after GET /logout the session carries no logged_in flag; a session
\* without the flag gains it only by a successful POST /auth of that session;
\* and until then every request of the session to a protected route is
\* answered with the redirect to the login page, the handler not run.
C2_LogoutThenRedirect ==
    [][\A s \in Sessions :
          /\ (response'.route = "logout" /\ response'.session = s) =>
                 (~LoggedInFlag(session'[s]) /\ response'.status = "redirect_login")
          /\ (~LoggedInFlag(session[s]) /\ LoggedInFlag(session'[s])) =>
                 /\ response'.route = "auth"
                 /\ response'.session = s
                 /\ response'.status = "redirect_dashboard"
          /\ (/\ ~LoggedInFlag(session[s])
              /\ response'.session = s
              /\ response'.route \in ProtectedRoutes) =>
                 /\ response'.status = "redirect_login"
                 /\ response'.body = <<>>
                 /\ StoredUnchanged]_vars

\* C2 witness: the latest logged event is a logout, the session is empty and
\* a protected route has just been answered with the redirect.
C2_Witness ==
    /\ user_activity # <<>>
    /\ user_activity[Len(user_activity)].activity = "Logged out"
    /\ session[response.session] = EmptySession
    /\ response.route \in ProtectedRoutes
    /\ response.status = "redirect_login"

\* C3: a request to a protected route by a session without the logged_in
\* flag is answered with the redirect to the login page, never an error, and
\* the handler is not invoked: no Purchase row, no user_activity row, no
\* connection, the session unchanged.
C3_GateWithoutSession ==
    [][(/\ response'.route \in ProtectedRoutes
        /\ ~LoggedInFlag(session[response'.session])) =>
           /\ response'.status = "redirect_login"
           /\ response'.body = <<>>
           /\ StoredUnchanged
           /\ UNCHANGED open_connections]_vars

\* C3 witness: /add-purchase asked without a session, after a purchase was
\* stored by an earlier login.
C3_Witness ==
    /\ response.route = "add_purchase"
    /\ response.status = "redirect_login"
    /\ session[response.session] = EmptySession
    /\ Purchase # {}

\* C4: a successful POST /add-purchase adds exactly one Purchase row, with a
\* fresh id and purchase_quantity = remaining_quantity; the rows that existed
\* are unchanged; posted as product P, supplier S, quantity Q and date E the
\* row carries exactly these; the answer is the JSON success.
C4_OneRowAsSubmitted ==
    [][(response'.route = "add_purchase" /\ response'.status = "json_success") =>
          /\ \E row \in Purchase' :
                 /\ row \notin Purchase
                 /\ \A old \in Purchase : old.id # row.id
                 /\ Purchase' = Purchase \cup {row}
                 /\ row.purchase_quantity = row.remaining_quantity
          /\ \A P \in ProductIds, S \in {1}, Q \in Quantities, E \in DateLiterals :
                 add_purchase(response'.session, PurchaseForm(P, S, Q, E)) =>
                     \E row \in Purchase' \ Purchase :
                         /\ row.product_id = P
                         /\ row.supplier_id = S
                         /\ row.expiration_date = E
                         /\ row.purchase_quantity = Q
                         /\ row.remaining_quantity = Q]_vars

\* C4 witness: a second purchase, of product 2, was just acknowledged.
C4_Witness ==
    /\ response.route = "add_purchase"
    /\ response.status = "json_success"
    /\ Cardinality(Purchase) = 2
    /\ \E row \in Purchase : row.product_id = 2 /\ row.id = purchase_id_seq - 1

\* C5: in every state every Purchase row has
\* remaining_quantity <= purchase_quantity.
C5_RemainingAtMostPurchased ==
    \A row \in Purchase : row.remaining_quantity <= row.purchase_quantity

\* C5 witness: two rows are stored, one of them of a negative quantity.
C5_Witness ==
    /\ Cardinality(Purchase) = 2
    /\ \E row \in Purchase : row.purchase_quantity < 0

RECURSIVE StockOfActive(_, _)
\* The stock of the active products among the ids, an absent, inactive or
\* NULL-stocked product counting 0.
StockOfActive(ids, table) ==
    IF ids = {} THEN 0
    ELSE LET i == CHOOSE x \in ids : TRUE
             mine == {p \in table : p.id = i /\ p.status = "active"
                                    /\ p.stock_quantity # <<>>}
         IN  (IF mine = {} THEN 0 ELSE (CHOOSE p \in mine : TRUE).stock_quantity[1])
             + StockOfActive(ids \ {i}, table)

\* C6: on any Product table the dashboard page reports total_stocks as the
\* sum of stock_quantity over the active rows (0 when none), medicines as
\* the number of active medicines and supplies as the number of active
\* supplies, the two adding up to the number of active rows.
C6_DashboardAggregates ==
    (response.route = "dashboard" /\ response.status = "dashboard_page") =>
        LET active == {p \in Product : p.status = "active"}
        IN  /\ response.body[1] = StockOfActive(ProductIds, Product)
            /\ response.body[2] =
                   Cardinality({p \in active : p.product_type = "medicine"})
            /\ response.body[3] =
                   Cardinality({p \in active : p.product_type = "supply"})
            /\ response.body[2] + response.body[3] = Cardinality(active)

\* C6 witness: the page for an active medicine and an inactive, stocked supply.
C6_Witness ==
    /\ response.route = "dashboard"
    /\ response.status = "dashboard_page"
    /\ \E m, x \in Product :
           /\ m.product_type = "medicine" /\ m.status = "active"
           /\ m.stock_quantity = <<MaxStock>>
           /\ x.product_type = "supply" /\ x.status = "inactive"
           /\ x.stock_quantity = <<1>>
    /\ response.body = <<MaxStock, 1, 0>>

ConcDone == \A r \in Reqs : req[r].pc = "done"

\* The rows left by serving form f1, then form f2, one after the other.
SerialRows(f1, f2) ==
    LET i1 == InsertPurchase(ReadForm(f1), 1, {}, Product, Supplier)
        t1 == Commit({}, i1.rows)
        i2 == InsertPurchase(ReadForm(f2), i1.seq, t1, Product, Supplier)
    IN  Commit(t1, i2.rows)

RowOf(row, form) ==
    /\ Fmt(row.product_id) = form["product_id"]
    /\ Fmt(row.supplier_id) = form["supplier_id"]
    /\ Fmt(row.purchase_quantity) = form["purchase_quantity"]
    /\ Fmt(row.remaining_quantity) = form["purchase_quantity"]
    /\ row.expiration_date = form["expiration_date"]

\* C8: when two well-formed /add-purchase requests of logged-in sessions
\* have been served in any interleaving of their steps, both were answered
\* with the JSON success and the Purchase table holds two rows of distinct
\* ids, one as each request submitted it: the rows of one of the two serial
\* orders.
C8_ConcurrentStockIns ==
    (ConcDone /\ \A r \in Reqs : req[r].form \in WellFormedForms) =>
        /\ \A r \in Reqs : req[r].status = "json_success"
        /\ Cardinality(Purchase) = 2
        /\ \E a, b \in Purchase :
               /\ a.id # b.id
               /\ RowOf(a, req["A"].form)
               /\ RowOf(b, req["B"].form)
        /\ Purchase \in {SerialRows(req["A"].form, req["B"].form),
                         SerialRows(req["B"].form, req["A"].form)}

\* C8 witness: both served; B's row took the first id although A's activity
\* was logged first.
C8_Witness ==
    /\ ConcDone
    /\ \A r \in Reqs : req[r].status = "json_success"
    /\ req["A"].form["product_id"] = Fmt(1)
    /\ req["B"].form["product_id"] = Fmt(2)
    /\ \E row \in Purchase : row.id = 1 /\ row.product_id = 2
    /\ req["A"].session["username"] # req["B"].session["username"]
    /\ user_activity[3].username = req["A"].session["username"]

\* C9: whenever no request is in progress, no database connection is open.
C9_ConnectionsClosed ==
    (\A r \in Reqs : req[r].pc \in {"idle", "done"}) => open_connections = 0

\* The texts that denote an integer, among those a form may carry.
IntegerTexts ==
    {Fmt(n) : n \in (0 - 10)..10} \cup {<<" ">> \o Fmt(n) \o <<" ">> : n \in (0 - 10)..10}

\* The answer to a failing form, by the first read or statement that fails.
FailureStatus(form) ==
    IF {"product_id", "supplier_id", "purchase_quantity"} \ DOMAIN form # {}
    THEN "bad_request"
    ELSE IF form["purchase_quantity"] \notin IntegerTexts THEN "server_error"
    ELSE IF "expiration_date" \notin DOMAIN form THEN "bad_request"
    ELSE "server_error"

FailedPurchase ==
    /\ response'.route = "add_purchase"
    /\ LoggedInFlag(session[response'.session])
    /\ response'.status # "json_success"

\* C10 as amended: a failing POST /add-purchase of a logged-in session ends
\* as 400 Bad Request when the failure is a missing form field, as a server
\* error when purchase_quantity is not an integer or the insert raises a
\* database error; no Purchase row and no user_activity row is added and the
\* session stays as it was.
C10_FailedPurchaseLeavesState ==
    [][FailedPurchase =>
          /\ response'.status \in {"bad_request", "server_error"}
          /\ UNCHANGED <<Purchase, user_activity, session>>
          /\ \A form \in PurchaseForms :
                 \/ response'.status = FailureStatus(form)
                 \/ ~add_purchase(response'.session, form)]_vars

\* C10 witness: an insert naming a product or supplier that does not exist
\* failed (it consumed an id) with a row already stored.
C10_Witness ==
    /\ response.route = "add_purchase"
    /\ response.status = "server_error"
    /\ LoggedInFlag(session[response.session])
    /\ Purchase # {}
    /\ purchase_id_seq > Cardinality(Purchase) + 1

\* C10 as stated: every failing POST /add-purchase of a logged-in session
\* ends as a server error and leaves the stored state unchanged.
C10_FailsAsServerError ==
    [][FailedPurchase =>
          /\ response'.status = "server_error"
          /\ UNCHANGED <<Purchase, user_activity, session>>]_vars

====
